---- MODULE Spec2Model ----
(***************************************************************************)
(* Two HTTP services that forward a request to a hosted generative model   *)
(* and reshape the reply:                                                  *)
(*   src/app.py   FastAPI  POST /generate        (text / JSON mode)        *)
(*   src/main.py  Flask    POST /generate-image  (image)                   *)
(* Each in-flight request occupies a slot; a slot's handler advances in    *)
(* steps (enter, backend call, post-processing), so that the handlers of   *)
(* several slots interleave.                                               *)
(***************************************************************************)
EXTENDS Integers, Sequences, FiniteSets, TLC

(***************************************************************************)
(* Bounds of the model.                                                    *)
(***************************************************************************)
NumSlots == 2        \* concurrently handled requests (SpecServices)
MaxTextLen == 5      \* tokens of a generated text (SpecJson)
MaxPromptLen == 2    \* characters of a prompt (SpecTokens)
MaxParts == 3        \* content parts of an image reply (SpecImage)

(***************************************************************************)
(* Python values.  A value carries its type, so that a dict of token       *)
(* counts can hold an int, a str or None under a key, as in the source.    *)
(***************************************************************************)
PyNone == [t |-> "NoneType"]
PyInt(n) == [t |-> "int", v |-> n]
PyStr(s) == [t |-> "str", v |-> s]
PyDict(d) == [t |-> "dict", v |-> d]
PyList(l) == [t |-> "list", v |-> l]
\* an attribute or body that is not there: reading it raises
Missing(why) == [t |-> "missing", v |-> why]

(***************************************************************************)
(* Generated text.  A text is a sequence of tokens; each token is the      *)
(* string of characters it stands for, so len() counts characters.         *)
(***************************************************************************)
\* the fence of three backquotes; written ~~~ (same length), as a TLA+ string
\* holds no backquote
FENCE == "~~~"
TAG == "json"
OBJ == "{\"a\":1}"
ARR == "[1]"
NL == "\n"
Tokens == {FENCE, TAG, OBJ, ARR, NL}

TextsUpTo(n) == UNION {[1..k -> Tokens] : k \in 0..n}

RECURSIVE len(_)
\* len(str): the number of characters
len(s) == IF s = <<>> THEN 0 ELSE Len(Head(s)) + len(Tail(s))

\* sep in s
contains(s, sep) ==
    \E i \in 1..(Len(s) - Len(sep) + 1) : SubSeq(s, i, i + Len(sep) - 1) = sep

RECURSIVE SplitFrom(_, _, _)
SplitFrom(s, sep, cur) ==
    IF s = <<>> THEN <<cur>>
    ELSE IF Len(s) >= Len(sep) /\ SubSeq(s, 1, Len(sep)) = sep
         THEN <<cur>> \o SplitFrom(SubSeq(s, Len(sep) + 1, Len(s)), sep, <<>>)
         ELSE SplitFrom(Tail(s), sep, Append(cur, Head(s)))

\* s.split(sep): the pieces between the occurrences of sep, left to right
split(s, sep) == SplitFrom(s, sep, <<>>)

RECURSIVE lstrip(_)
lstrip(s) == IF s # <<>> /\ Head(s) = NL THEN lstrip(Tail(s)) ELSE s

RECURSIVE rstrip(_)
rstrip(s) ==
    IF s # <<>> /\ s[Len(s)] = NL THEN rstrip(SubSeq(s, 1, Len(s) - 1)) ELSE s

\* s.strip(): leading and trailing whitespace removed
strip(s) == rstrip(lstrip(s))

\* json.loads(s): the parsed value, or JSONDecodeError.  Whitespace around
\* the one JSON value is accepted; anything else around it is not.
json_loads(s) ==
    LET core == strip(s) IN
    IF core = <<OBJ>> THEN [ok |-> TRUE, value |-> PyDict([a |-> 1])]
    ELSE IF core = <<ARR>> THEN [ok |-> TRUE, value |-> PyList(<<1>>)]
    ELSE [ok |-> FALSE, value |-> PyNone]

(***************************************************************************)
(* State.                                                                  *)
(***************************************************************************)
VARIABLES
    PROJECT_ID,            \* main.py: os.getenv("PROJECT_ID"), PyNone if unset
    LOCATION,              \* main.py: region
    APP_PROJECT_ID,        \* app.py: os.getenv("PROJECT_ID")
    REGION,                \* app.py: region
    DEFAULT_GEMINI_MODEL,  \* app.py: default model identifier
    vertexai,              \* the SDK's process-wide init state, per process
    pc,                    \* slot -> position of its handler
    endpoint,              \* slot -> "generate" | "generate_image" | "none"
    request,               \* slot -> the request body
    response,              \* slot -> what the backend call produced
    calls,                 \* slot -> backend generate calls made for the request
    locals,                \* slot -> the handler's local variables
    http                   \* slot -> the HTTP response sent

config == <<PROJECT_ID, LOCATION, APP_PROJECT_ID, REGION, DEFAULT_GEMINI_MODEL>>
vars == <<PROJECT_ID, LOCATION, APP_PROJECT_ID, REGION, DEFAULT_GEMINI_MODEL,
          vertexai, pc, endpoint, request, response, calls, locals, http>>

Slots == DOMAIN pc

\* the SDK's state after vertexai.init(project=..., location=...)
Initialized(project, location) ==
    [t |-> "initialized", project |-> project, location |-> location]

NoRequest == [kind |-> "none"]
NoResponse == [kind |-> "none"]
NoLocals == [kind |-> "none"]
NoHttp == [status |-> 0]

(***************************************************************************)
(* Truthiness and attribute access, as Python defines them.                *)
(***************************************************************************)
truthy(x) ==
    CASE x.t = "NoneType" -> FALSE
      [] x.t = "missing" -> FALSE
      [] x.t = "int" -> x.v # 0
      [] x.t = "dict" -> DOMAIN x.v # {}
      [] x.t = "list" -> x.v # <<>>
      [] x.t = "str" -> x.v # <<>>
      [] OTHER -> TRUE

\* getattr(obj, name, default)
getattr(obj, name, default) ==
    IF name \in DOMAIN obj /\ obj[name].t # "missing" THEN obj[name] ELSE default

RECURSIVE SumOver(_, _)
SumOver(d, keys) ==
    IF keys = {} THEN 0
    ELSE LET k == CHOOSE k \in keys : TRUE
         IN  (Len(k) + 2) + 2 + (Len(d[k]) + 2) + SumOver(d, keys \ {k})

\* len(json.dumps(schema)) for a flat schema of string values:
\* {"k": "v", "k2": "v2"}
json_dumps_len(schema) ==
    LET n == Cardinality(DOMAIN schema.v)
    IN  2 + SumOver(schema.v, DOMAIN schema.v) + (IF n > 1 THEN 2 * (n - 1) ELSE 0)

(***************************************************************************)
(* app.py: POST /generate                                                  *)
(***************************************************************************)
\* characters of the system message without a schema (the literal)
PlainMessageLen == 174
\* characters of the system message around the schema text (the f-string)
SchemaMessageLen == 311

\* the system message placed before the prompt in JSON mode, by its length
system_message_len(req) ==
    IF truthy(req.json_schema)
    THEN SchemaMessageLen + json_dumps_len(req.json_schema)
    ELSE PlainMessageLen

\* contents: the submitted prompt segments, each by its length
Contents(req) ==
    IF req.json_mode THEN <<system_message_len(req), req.prompt>>
    ELSE <<req.prompt>>

RECURSIVE join_len(_)
\* len(' '.join(contents))
join_len(contents) ==
    IF contents = <<>> THEN 0
    ELSE IF Len(contents) = 1 THEN contents[1]
    ELSE contents[1] + 1 + join_len(Tail(contents))

\* int(n * 1.5)
int_times_1_5(n) == (3 * n) \div 2

ModelName(req, default) == IF truthy(req.model) THEN req.model ELSE default

\* a handler that calls the backend a second time when the first call fails
CallsAfterRetry(n) == n + 2

\* backend generate calls a request has made after one more call
CallsAfter(n) == n + 1

\* detail of the HTTPException the outer except raises
GenerationErrorDetail(desc) == PyStr(<<"generation error: ", desc>>)

\* token_info when the token block's try fails
TokenErrorInfo(desc) ==
    [error |-> PyStr(<<"failed to get the token counts: ", desc>>),
     note |-> PyStr(<<"the response was generated, but the token information could not be read">>)]

EstimateNote == PyStr(<<"the API gave no exact token counts; these are estimates">>)

\* exact counts whose total is recomputed from the two counts
ExactTokenInfoSummedTotal(usage_metadata) ==
    LET i == getattr(usage_metadata.v, "prompt_token_count", PyNone)
        o == getattr(usage_metadata.v, "candidates_token_count", PyNone)
    IN  [input_tokens |-> i,
         output_tokens |-> o,
         total_tokens |-> IF i.t = "int" /\ o.t = "int" THEN PyInt(i.v + o.v) ELSE PyNone]

\* lines 97-101: token_info from the backend's usage metadata
ExactTokenInfo(usage_metadata) ==
    [input_tokens |-> getattr(usage_metadata.v, "prompt_token_count", PyNone),
     output_tokens |-> getattr(usage_metadata.v, "candidates_token_count", PyNone),
     total_tokens |-> getattr(usage_metadata.v, "total_token_count", PyNone)]

\* the token block: token_info, and the estimates when they were computed
TokenBlock(resp, contents) ==
    LET usage_metadata == getattr(resp, "usage_metadata", PyNone) IN
    IF truthy(usage_metadata)
    THEN [token_info |-> ExactTokenInfo(usage_metadata),
          estimated |-> <<>>,
          failed |-> FALSE]
    ELSE IF resp.text.t = "missing"
    THEN [token_info |-> TokenErrorInfo(resp.text.v),
          estimated |-> <<join_len(contents)>>,
          failed |-> TRUE]
    ELSE LET n_in == join_len(contents)     \* len(input_text)
             n_out == len(resp.text.v)      \* len(response.text)
         IN  [token_info |->
                  [input_tokens_estimated |-> PyInt(int_times_1_5(n_in)),
                   output_tokens_estimated |-> PyInt(int_times_1_5(n_out)),
                   total_tokens_estimated |-> PyInt(int_times_1_5(n_in + n_out)),
                   note |-> EstimateNote],
              estimated |-> <<n_in, n_out>>,
              failed |-> FALSE]

\* GeminiResponse.tokens: Optional[Dict[str, int]]
ValidTokens(token_info) == \A k \in DOMAIN token_info : token_info[k].t = "int"

\* the text handed to json.loads
JsonText(text) ==
    IF contains(text, <<FENCE, TAG>>)
    THEN strip(split(split(text, <<FENCE, TAG>>)[2], <<FENCE>>)[1])
    ELSE IF contains(text, <<FENCE>>)
    THEN strip(split(split(text, <<FENCE>>)[2], <<FENCE>>)[1])
    ELSE text

\* GeminiResponse(text=..., model=..., tokens=...): seed is not passed
ResponseSeed(req) == PyNone

\* GeminiResponse.json_data: Optional[Dict[str, Any]]
ValidJsonData(v) == v.t \in {"NoneType", "dict"}

InternalServerError == [status |-> 500, body |-> [detail |-> PyStr(<<"Internal Server Error">>)]]

\* response_model=GeminiResponse: what is sent for the object the handler
\* returned.  json_data is assigned without validation; a framework build
\* that validates the returned object again (revalidates) rejects a
\* json_data that is no dict, one that does not sends it as it is.
Serialize(result, revalidates) ==
    IF revalidates /\ ~ValidJsonData(result.json_data)
    THEN InternalServerError
    ELSE [status |-> 200, body |-> result]

\* lines 90-146 of the handler, once the backend call has returned resp:
\* the HTTP response and the locals the handler ends with
Normalize(req, resp, loc, revalidates) ==
    LET tb == TokenBlock(resp, loc.contents)
        loc1 == [loc EXCEPT !.token_info = tb.token_info,
                            !.estimated = tb.estimated,
                            !.token_failed = tb.failed]
    IN
    IF resp.text.t = "missing"
    THEN \* response.text raises while the result is built
         [http |-> [status |-> 500, body |-> [detail |-> GenerationErrorDetail(resp.text.v)]],
          locals |-> loc1]
    ELSE IF ~ValidTokens(tb.token_info)
    THEN \* pydantic rejects tokens: ValidationError
         [http |-> [status |-> 500,
                    body |-> [detail |-> GenerationErrorDetail("ValidationError: tokens")]],
          locals |-> loc1]
    ELSE LET result == [text |-> resp.text, model |-> loc.model_name,
                        tokens |-> tb.token_info, json_data |-> PyNone,
                        seed |-> ResponseSeed(req)]
         IN
         IF req.json_mode
         THEN LET json_text == JsonText(resp.text.v)
                  parsed == json_loads(json_text)
              IN  [http |-> Serialize(IF parsed.ok
                                      THEN [result EXCEPT !.json_data = parsed.value]
                                      ELSE result,
                                      revalidates),
                   locals |-> [loc1 EXCEPT !.json_text = PyStr(json_text)]]
         ELSE [http |-> Serialize(result, revalidates), locals |-> loc1]

\* lines 42-82: the handler's locals when the backend is called
EnterLocals(req, default) ==
    [kind |-> "generate",
     model_name |-> ModelName(req, default),
     contents |-> Contents(req),
     token_info |-> <<>>,
     estimated |-> <<>>,
     token_failed |-> FALSE,
     json_text |-> PyNone]

\* a handler that keeps the model it used as the process-wide default
generate_content_enter_keeps_model(r, req) ==
    /\ pc[r] = "idle"
    /\ pc' = [pc EXCEPT ![r] = "call"]
    /\ endpoint' = [endpoint EXCEPT ![r] = "generate"]
    /\ request' = [request EXCEPT ![r] = req]
    /\ locals' = [locals EXCEPT ![r] =
                    EnterLocals(req, DEFAULT_GEMINI_MODEL)]
    /\ calls' = [calls EXCEPT ![r] = 0]
    /\ DEFAULT_GEMINI_MODEL' = ModelName(req, DEFAULT_GEMINI_MODEL)
    /\ UNCHANGED <<PROJECT_ID, LOCATION, APP_PROJECT_ID, REGION, vertexai, response, http>>

\* lines 42-82: the request is accepted, model name and contents are set
generate_content_enter(r, req) ==
    /\ pc[r] = "idle"
    /\ pc' = [pc EXCEPT ![r] = "call"]
    /\ endpoint' = [endpoint EXCEPT ![r] = "generate"]
    /\ request' = [request EXCEPT ![r] = req]
    /\ locals' = [locals EXCEPT ![r] =
                    EnterLocals(req, DEFAULT_GEMINI_MODEL)]
    /\ calls' = [calls EXCEPT ![r] = 0]
    /\ UNCHANGED <<config, vertexai, response, http>>

\* lines 85-88 and 145-146: the backend call, which returns or raises
generate_content_call(r, out) ==
    /\ pc[r] = "call"
    /\ endpoint[r] = "generate"
    /\ calls' = [calls EXCEPT ![r] = CallsAfter(@)]
    /\ response' = [response EXCEPT ![r] = out]
    /\ IF out.raised
       THEN /\ pc' = [pc EXCEPT ![r] = "done"]
            /\ http' = [http EXCEPT ![r] =
                          [status |-> 500, body |-> [detail |-> GenerationErrorDetail(out.desc)]]]
       ELSE /\ pc' = [pc EXCEPT ![r] = "returned"]
            /\ UNCHANGED http
    /\ UNCHANGED <<config, vertexai, endpoint, request, locals>>

\* lines 90-146: token information, the result object, JSON extraction
generate_content_normalize(r, revalidates) ==
    /\ pc[r] = "returned"
    /\ endpoint[r] = "generate"
    /\ LET n == Normalize(request[r], response[r], locals[r], revalidates)
       IN  /\ http' = [http EXCEPT ![r] = n.http]
           /\ locals' = [locals EXCEPT ![r] = n.locals]
    /\ pc' = [pc EXCEPT ![r] = "done"]
    /\ UNCHANGED <<config, vertexai, endpoint, request, response, calls>>

\* the response has been sent; the slot serves the next request
respond(r) ==
    /\ pc[r] = "done"
    /\ pc' = [pc EXCEPT ![r] = "idle"]
    /\ endpoint' = [endpoint EXCEPT ![r] = "none"]
    /\ request' = [request EXCEPT ![r] = NoRequest]
    /\ response' = [response EXCEPT ![r] = NoResponse]
    /\ calls' = [calls EXCEPT ![r] = 0]
    /\ locals' = [locals EXCEPT ![r] = NoLocals]
    /\ http' = [http EXCEPT ![r] = NoHttp]
    /\ UNCHANGED <<config, vertexai>>

(***************************************************************************)
(* main.py: POST /generate-image                                           *)
(***************************************************************************)
\* Image.open(BytesIO(data)): the picture, or an error for bytes that are
\* no image
Image_open(data) ==
    IF data.format \in {"jpeg", "png"}
    THEN [ok |-> TRUE, image |-> data.picture]
    ELSE [ok |-> FALSE, desc |-> "cannot identify image file"]

\* image.save(buffered, format="PNG"); buffered.getvalue()
save_png(image) == [format |-> "png", picture |-> image]

\* base64.b64encode(bytes).decode()
b64encode(bytes) == PyStr(<<"base64", bytes>>)

ErrorBody(msg) == [error |-> PyStr(msg)]

\* a loop that keeps the first image it has stored
PartImageKeepFirst(prev, data) ==
    IF prev # PyNone THEN prev ELSE b64encode(save_png(Image_open(data).image))

\* what result["image"] holds after an inline-data part has been processed
\* (prev: what it held before; it is overwritten)
PartImage(prev, data) == b64encode(save_png(Image_open(data).image))

\* hasattr(part, 'inline_data') and part.inline_data
HasInlineData(part) == part.kind = "inline"

\* before_request hook, lines 19-28: the SDK is initialised for the
\* configured project, unless none is configured or the SDK raises
initialize_vertexai(r, body, init_ok) ==
    /\ pc[r] = "idle"
    /\ pc' = [pc EXCEPT ![r] = "routed"]
    /\ endpoint' = [endpoint EXCEPT ![r] = "generate_image"]
    /\ request' = [request EXCEPT ![r] = [kind |-> "generate_image", body |-> body]]
    /\ calls' = [calls EXCEPT ![r] = 0]
    /\ vertexai' = IF PROJECT_ID # PyNone /\ init_ok
                   THEN [vertexai EXCEPT !.main = Initialized(PROJECT_ID, LOCATION)]
                   ELSE vertexai
    /\ UNCHANGED <<config, response, locals, http>>

\* request.get_json(): the parsed body; for a request without a JSON body
\* it yields None or raises, depending on the framework version
GetJson(body) ==
    IF body.t = "missing"
    THEN {[raised |-> FALSE, data |-> PyNone],
          [raised |-> TRUE, desc |-> "415 Unsupported Media Type"]}
    ELSE {[raised |-> FALSE, data |-> body]}

\* a handler that looks at the body before it looks at the project
EnterDecisionPromptFirst(project, gj) ==
    IF gj.raised
    THEN [go |-> FALSE, status |-> 500, msg |-> <<gj.desc>>]
    ELSE IF ~truthy(gj.data) \/ "prompt" \notin DOMAIN gj.data.v
    THEN [go |-> FALSE, status |-> 400, msg |-> <<"a prompt is required">>]
    ELSE IF project = PyNone
    THEN [go |-> FALSE, status |-> 500,
          msg |-> <<"PROJECT_ID environment variable is not set">>]
    ELSE [go |-> TRUE, status |-> 0, msg |-> <<>>]

\* lines 35-43: the project check, get_json, then the prompt check
EnterDecision(project, gj) ==
    IF project = PyNone
    THEN [go |-> FALSE, status |-> 500,
          msg |-> <<"PROJECT_ID environment variable is not set">>]
    ELSE IF gj.raised
    THEN \* the outer except, lines 90-92
         [go |-> FALSE, status |-> 500, msg |-> <<gj.desc>>]
    ELSE IF ~truthy(gj.data) \/ "prompt" \notin DOMAIN gj.data.v
    THEN [go |-> FALSE, status |-> 400, msg |-> <<"a prompt is required">>]
    ELSE [go |-> TRUE, status |-> 0, msg |-> <<>>]

\* lines 32-46: the handler up to the backend call
generate_image_enter(r, gj) ==
    /\ pc[r] = "routed"
    /\ endpoint[r] = "generate_image"
    /\ gj \in GetJson(request[r].body)
    /\ LET d == EnterDecision(PROJECT_ID, gj)
       IN  IF d.go
           THEN /\ locals' = [locals EXCEPT ![r] =
                                [kind |-> "generate_image", prompt |-> gj.data.v.prompt,
                                 result |-> <<>>, idx |-> 0]]
                /\ pc' = [pc EXCEPT ![r] = "call"]
                /\ UNCHANGED http
           ELSE /\ http' = [http EXCEPT ![r] = [status |-> d.status, body |-> ErrorBody(d.msg)]]
                /\ pc' = [pc EXCEPT ![r] = "done"]
                /\ UNCHANGED locals
    /\ UNCHANGED <<config, vertexai, endpoint, request, response, calls>>

\* message of the 500 sent when the backend call raises
ApiErrorMessage(desc) == <<"Gemini API call error: ", desc>>

\* lines 48-64: the backend call, which returns or raises
generate_image_call(r, out) ==
    /\ pc[r] = "call"
    /\ endpoint[r] = "generate_image"
    /\ calls' = [calls EXCEPT ![r] = CallsAfter(@)]
    /\ response' = [response EXCEPT ![r] = out]
    /\ IF out.raised
       THEN /\ pc' = [pc EXCEPT ![r] = "done"]
            /\ http' = [http EXCEPT ![r] =
                          [status |-> 500, body |-> ErrorBody(ApiErrorMessage(out.desc))]]
       ELSE /\ pc' = [pc EXCEPT ![r] = "returned"]
            /\ UNCHANGED http
    /\ UNCHANGED <<config, vertexai, endpoint, request, locals>>

ImageErrorMessage(desc) == <<"image processing error: ", desc>>

\* lines 66-74: the result dict is started and the parts are fetched
generate_image_result(r) ==
    /\ pc[r] = "returned"
    /\ endpoint[r] = "generate_image"
    /\ LET resp == response[r]
           result == IF resp.text.t # "missing"
                     THEN [success |-> TRUE, text |-> resp.text]
                     ELSE [success |-> TRUE]
       IN  IF resp.candidates = <<>>
           THEN \* response.candidates[0]: IndexError
                /\ http' = [http EXCEPT ![r] =
                              [status |-> 500,
                               body |-> ErrorBody(ImageErrorMessage("list index out of range"))]]
                /\ pc' = [pc EXCEPT ![r] = "done"]
                /\ locals' = [locals EXCEPT ![r].result = result]
           ELSE /\ locals' = [locals EXCEPT ![r].result = result, ![r].idx = 1]
                /\ pc' = [pc EXCEPT ![r] = "parts"]
                /\ UNCHANGED http
    /\ UNCHANGED <<config, vertexai, endpoint, request, response, calls>>

\* lines 74-86: one iteration of the loop over the parts
generate_image_part(r) ==
    /\ pc[r] = "parts"
    /\ endpoint[r] = "generate_image"
    /\ locals[r].idx <= Len(response[r].candidates[1])
    /\ LET part == response[r].candidates[1][locals[r].idx]
           result == locals[r].result
       IN  IF ~HasInlineData(part)
           THEN /\ locals' = [locals EXCEPT ![r].idx = @ + 1]
                /\ UNCHANGED <<pc, http>>
           ELSE IF ~Image_open(part.data).ok
           THEN /\ http' = [http EXCEPT ![r] =
                              [status |-> 500,
                               body |-> ErrorBody(ImageErrorMessage(Image_open(part.data).desc))]]
                /\ pc' = [pc EXCEPT ![r] = "done"]
                /\ UNCHANGED locals
           ELSE /\ locals' = [locals EXCEPT
                                ![r].idx = @ + 1,
                                ![r].result =
                                    [k \in DOMAIN result \cup {"image"} |->
                                        IF k = "image"
                                        THEN PartImage(IF "image" \in DOMAIN result
                                                       THEN result.image ELSE PyNone,
                                                       part.data)
                                        ELSE result[k]]]
                /\ UNCHANGED <<pc, http>>
    /\ UNCHANGED <<config, vertexai, endpoint, request, response, calls>>

\* line 88: return jsonify(result)
generate_image_return(r) ==
    /\ pc[r] = "parts"
    /\ endpoint[r] = "generate_image"
    /\ locals[r].idx > Len(response[r].candidates[1])
    /\ http' = [http EXCEPT ![r] = [status |-> 200, body |-> locals[r].result]]
    /\ pc' = [pc EXCEPT ![r] = "done"]
    /\ UNCHANGED <<config, vertexai, endpoint, request, response, calls, locals>>

(***************************************************************************)
(* Inputs.                                                                 *)
(***************************************************************************)
Descriptions == {"quota exceeded", "connection reset"}

BackendRaises == {[kind |-> "result", raised |-> TRUE, desc |-> d] : d \in Descriptions}

UsageMetadata(i, o, t) ==
    [t |-> "UsageMetadata",
     v |-> [prompt_token_count |-> i, candidates_token_count |-> o, total_token_count |-> t]]

UsageChoices ==
    {PyNone,
     UsageMetadata(PyInt(10), PyInt(20), PyInt(30)),
     UsageMetadata(PyInt(3), PyInt(1), PyInt(5)),
     UsageMetadata(PyInt(10), Missing("AttributeError"), PyInt(10))}

NoText == Missing("ValueError: the response has no text")

TextResult(text, usage) ==
    [kind |-> "result", raised |-> FALSE, text |-> text, usage_metadata |-> usage]

Schemas == {PyNone, PyDict(<<>>), PyDict([type |-> "object"])}

TextRequest(p, m, jm, js, sd) ==
    [kind |-> "generate", prompt |-> p, model |-> m, json_mode |-> jm,
     json_schema |-> js, seed |-> sd]

InitConfig(projects) ==
    /\ PROJECT_ID \in projects
    /\ LOCATION = PyStr(<<"us-central1">>)
    /\ APP_PROJECT_ID = PyStr(<<"my-project">>)
    /\ REGION = PyStr(<<"us-central1">>)
    /\ DEFAULT_GEMINI_MODEL = PyStr(<<"gemini-2.0-flash-preview-image-generation">>)
    \* app.py calls vertexai.init at import; main.py has not called it yet
    /\ vertexai = [main |-> PyNone, app |-> Initialized(APP_PROJECT_ID, REGION)]

InitSlots(n) ==
    /\ pc = [r \in 1..n |-> "idle"]
    /\ endpoint = [r \in 1..n |-> "none"]
    /\ request = [r \in 1..n |-> NoRequest]
    /\ response = [r \in 1..n |-> NoResponse]
    /\ calls = [r \in 1..n |-> 0]
    /\ locals = [r \in 1..n |-> NoLocals]
    /\ http = [r \in 1..n |-> NoHttp]

(***************************************************************************)
(* SpecTokens: one /generate request at a time; prompts, seeds, schemas    *)
(* and usage metadata vary, the generated texts are short.                 *)
(***************************************************************************)
TokenRequests ==
    {TextRequest(p, m, jm, js, sd) :
        p \in 0..MaxPromptLen,
        m \in {PyNone, PyStr(<<"gemini-2.0-flash-001">>)},
        jm \in BOOLEAN,
        js \in Schemas,
        sd \in {PyNone, PyInt(42)}}

TokenResults ==
    BackendRaises \cup
    {TextResult(t, u) :
        t \in {NoText} \cup {PyStr(s) : s \in {<<>>, <<OBJ>>, <<ARR>>, <<TAG, NL>>}},
        u \in UsageChoices}

InitTokens == InitConfig({PyStr(<<"my-project">>)}) /\ InitSlots(1)

NextTokens ==
    \/ \E req \in TokenRequests : generate_content_enter(1, req)
    \/ \E out \in TokenResults : generate_content_call(1, out)
    \/ \E rv \in BOOLEAN : generate_content_normalize(1, rv)
    \/ respond(1)

SpecTokens == InitTokens /\ [][NextTokens]_vars

(***************************************************************************)
(* SpecJson: one /generate request at a time; the generated texts vary.    *)
(***************************************************************************)
JsonRequests ==
    {TextRequest(1, PyNone, jm, PyNone, PyNone) : jm \in BOOLEAN}

JsonResults ==
    {TextResult(PyStr(s), u) :
        s \in TextsUpTo(MaxTextLen),
        u \in {PyNone, UsageMetadata(PyInt(10), PyInt(20), PyInt(30))}}

InitJson == InitConfig({PyStr(<<"my-project">>)}) /\ InitSlots(1)

NextJson ==
    \/ \E req \in JsonRequests : generate_content_enter(1, req)
    \/ \E out \in JsonResults : generate_content_call(1, out)
    \/ \E rv \in BOOLEAN : generate_content_normalize(1, rv)
    \/ respond(1)

SpecJson == InitJson /\ [][NextJson]_vars

(***************************************************************************)
(* SpecImage: one /generate-image request at a time; the project may be    *)
(* unset, bodies and reply parts vary.                                     *)
(***************************************************************************)
Bodies ==
    {Missing("no JSON body"),
     PyDict(<<>>),
     PyDict([style |-> PyStr(<<"x">>)]),
     PyDict([prompt |-> PyStr(<<"a cat">>)])}

ImageBytes ==
    {[format |-> "jpeg", picture |-> "A"],
     [format |-> "png", picture |-> "B"],
     [format |-> "junk", picture |-> "none"]}

PartChoices == {[kind |-> "text"]} \cup {[kind |-> "inline", data |-> d] : d \in ImageBytes}

PartsUpTo(n) == UNION {[1..k -> PartChoices] : k \in 0..n}

ImageResult(text, candidates) ==
    [kind |-> "result", raised |-> FALSE, text |-> text, candidates |-> candidates]

ImageResults ==
    BackendRaises \cup
    {ImageResult(t, c) :
        t \in {Missing("AttributeError"), PyStr(<<"here is your image">>)},
        c \in {<<>>} \cup {<<ps>> : ps \in PartsUpTo(MaxParts)}}

InitImage == InitConfig({PyNone, PyStr(<<"my-project">>)}) /\ InitSlots(1)

NextImage ==
    \/ \E body \in Bodies, init_ok \in BOOLEAN : initialize_vertexai(1, body, init_ok)
    \/ \E gj \in UNION {GetJson(b) : b \in Bodies} : generate_image_enter(1, gj)
    \/ \E out \in ImageResults : generate_image_call(1, out)
    \/ generate_image_result(1)
    \/ generate_image_part(1)
    \/ generate_image_return(1)
    \/ respond(1)

SpecImage == InitImage /\ [][NextImage]_vars

(***************************************************************************)
(* SpecServices: both services, NumSlots requests handled concurrently,    *)
(* their handlers' steps interleaved.                                      *)
(***************************************************************************)
ServiceSlots == 1..NumSlots

ServiceTextRequests ==
    {TextRequest(1, PyNone, FALSE, PyNone, PyNone),
     TextRequest(1, PyStr(<<"gemini-2.0-flash-001">>), TRUE, PyNone, PyNone)}

ServiceTextResults ==
    BackendRaises \cup
    {TextResult(PyStr(<<OBJ>>), u) :
        u \in {PyNone, UsageMetadata(PyInt(10), PyInt(20), PyInt(30))}}

ServiceBodies == {Missing("no JSON body"), PyDict([prompt |-> PyStr(<<"a cat">>)])}

ServiceImageResults ==
    BackendRaises \cup
    {ImageResult(Missing("AttributeError"), <<<<[kind |-> "inline", data |-> d]>>>>) :
        d \in {[format |-> "jpeg", picture |-> "A"], [format |-> "junk", picture |-> "none"]}}

InitServices == InitConfig({PyNone, PyStr(<<"my-project">>)}) /\ InitSlots(NumSlots)

NextServices ==
    \/ \E r \in ServiceSlots, req \in ServiceTextRequests : generate_content_enter(r, req)
    \/ \E r \in ServiceSlots, out \in ServiceTextResults : generate_content_call(r, out)
    \/ \E r \in ServiceSlots, rv \in BOOLEAN : generate_content_normalize(r, rv)
    \/ \E r \in ServiceSlots, body \in ServiceBodies, init_ok \in BOOLEAN :
           initialize_vertexai(r, body, init_ok)
    \/ \E r \in ServiceSlots, gj \in UNION {GetJson(b) : b \in ServiceBodies} :
           generate_image_enter(r, gj)
    \/ \E r \in ServiceSlots, out \in ServiceImageResults : generate_image_call(r, out)
    \/ \E r \in ServiceSlots : generate_image_result(r)
    \/ \E r \in ServiceSlots : generate_image_part(r)
    \/ \E r \in ServiceSlots : generate_image_return(r)
    \/ \E r \in ServiceSlots : respond(r)

SpecServices == InitServices /\ [][NextServices]_vars

(***************************************************************************)
(* Properties.                                                             *)
(***************************************************************************)
Done(r) == pc[r] = "done"
Returned(r) == response[r].kind = "result" /\ ~response[r].raised
OnGenerate(r) == endpoint[r] = "generate"
Success(r) == http[r].status = 200
HasText(r) == response[r].text.t = "str"

ExactKeys == {"input_tokens", "output_tokens", "total_tokens"}
EstimatedKeys == {"input_tokens_estimated", "output_tokens_estimated",
                  "total_tokens_estimated", "note"}

\* C2: once the backend call has returned, a failure while computing the
\* token information does not abort the request: the handler ends with a
\* success response whose token info is the error tier (an "error" entry
\* holding the failure description).
C2_TokenFailureDegrades ==
    \A r \in Slots :
        (Done(r) /\ OnGenerate(r) /\ Returned(r) /\ locals[r].token_failed) =>
            /\ Success(r)
            /\ "error" \in DOMAIN http[r].body.tokens
            /\ http[r].body.tokens = locals[r].token_info

\* C3: without usage metadata, for a prompt of P characters and a generated
\* text of O characters the returned token info reports
\* floor(1.5*P), floor(1.5*O) and, as total, the sum of those two values.
C3_EstimateFromLengths ==
    \A r \in Slots :
        (Done(r) /\ OnGenerate(r) /\ Returned(r) /\ HasText(r)
            /\ ~truthy(response[r].usage_metadata)) =>
            /\ Success(r)
            /\ LET P == request[r].prompt
                   O == len(response[r].text.v)
                   tk == http[r].body.tokens
               IN  /\ "input_tokens_estimated" \in DOMAIN tk
                   /\ tk.input_tokens_estimated = PyInt((3 * P) \div 2)
                   /\ tk.output_tokens_estimated = PyInt((3 * O) \div 2)
                   /\ tk.total_tokens_estimated =
                          PyInt(tk.input_tokens_estimated.v + tk.output_tokens_estimated.v)

\* C7: every success response of /generate echoes the request's seed: the
\* seed field equals the seed given, and is absent only when none was given.
C7_SeedEchoed ==
    \A r \in Slots :
        (Done(r) /\ OnGenerate(r) /\ Success(r)) => http[r].body.seed = request[r].seed

CompleteUsage(u) ==
    /\ truthy(u)
    /\ \A k \in {"prompt_token_count", "candidates_token_count", "total_token_count"} :
           u.v[k].t = "int"

VerbatimCounts(u) ==
    [input_tokens |-> getattr(u.v, "prompt_token_count", PyNone),
     output_tokens |-> getattr(u.v, "candidates_token_count", PyNone),
     total_tokens |-> getattr(u.v, "total_token_count", PyNone)]

\* C9: when the backend result carries usage metadata, no estimate is
\* computed and the token info returned is exactly the backend's input,
\* output and total counts under the exact keys (and, JSON mode apart, it is
\* returned whenever the result has its text and its three counts); the
\* token info of every
\* success response has the keys of one tier only, exact or estimated.
C9_ExactTokensVerbatim ==
    \A r \in Slots :
        (Done(r) /\ OnGenerate(r) /\ Returned(r)) =>
            LET u == response[r].usage_metadata IN
            /\ truthy(u) =>
                  /\ locals[r].estimated = <<>>
                  /\ Success(r) => http[r].body.tokens = VerbatimCounts(u)
            /\ (CompleteUsage(u) /\ HasText(r) /\ ~request[r].json_mode) => Success(r)
            /\ Success(r) =>
                  \/ DOMAIN http[r].body.tokens = ExactKeys
                  \/ DOMAIN http[r].body.tokens = EstimatedKeys

\* a success response carrying counts whose total is not the sum of the
\* input and output counts
C9_Witness ==
    \E r \in Slots :
        /\ Done(r) /\ OnGenerate(r) /\ Success(r)
        /\ http[r].body.tokens =
               [input_tokens |-> PyInt(3), output_tokens |-> PyInt(1), total_tokens |-> PyInt(5)]

OnImage(r) == endpoint[r] = "generate_image"

\* the body is absent, or is JSON without a 'prompt' field
LacksPrompt(body) == body.t = "missing" \/ "prompt" \notin DOMAIN body.v

InlineIndexes(parts) == {i \in 1..Len(parts) : parts[i].kind = "inline"}
AllDecode(parts) == \A i \in InlineIndexes(parts) : parts[i].data.format # "junk"
Max(S) == CHOOSE m \in S : \A x \in S : x <= m
\* base64 of the PNG re-encoding of the last inline-data part
LastImage(parts) ==
    LET data == parts[Max(InlineIndexes(parts))].data
    IN  PyStr(<<"base64", [format |-> "png", picture |-> data.picture]>>)

Min(S) == CHOOSE m \in S : \A x \in S : m <= x

\* the text from position start up to the next fence, or to the end
BlockFrom(text, start) ==
    LET ends == {j \in start..Len(text) : text[j] = FENCE}
    IN  SubSeq(text, start, IF ends = {} THEN Len(text) ELSE Min(ends) - 1)

JsonFences(text) == {i \in 1..(Len(text) - 1) : text[i] = FENCE /\ text[i + 1] = TAG}
Fences(text) == {i \in 1..Len(text) : text[i] = FENCE}

\* the substring the claims name: the content of the first fenced block
\* tagged json, else of the first fenced block, else the whole text
Selected(text) ==
    IF JsonFences(text) # {} THEN BlockFrom(text, Min(JsonFences(text)) + 2)
    ELSE IF Fences(text) # {} THEN BlockFrom(text, Min(Fences(text)) + 1)
    ELSE text

\* s without the whitespace around it
Trimmed(s) ==
    LET ink == {i \in 1..Len(s) : s[i] # NL}
    IN  IF ink = {} THEN <<>> ELSE SubSeq(s, Min(ink), Max(ink))

IsJson(s) == Trimmed(s) \in {<<OBJ>>, <<ARR>>}
JsonValue(s) == IF Trimmed(s) = <<OBJ>> THEN PyDict([a |-> 1]) ELSE PyList(<<1>>)

\* C4: for every /generate request whose backend call returned a result,
\* json_data is present only if json_mode was requested and the selected
\* text parsed as JSON; when json_mode is false, or no valid JSON is
\* extractable, json_data is absent, the response is still a success and
\* text is the generated text unchanged.
C4_JsonDataOnlyInJsonMode ==
    \A r \in Slots :
        (Done(r) /\ OnGenerate(r) /\ Returned(r) /\ HasText(r)) =>
            LET text == response[r].text.v
                extractable == request[r].json_mode /\ IsJson(Selected(text))
            IN  /\ (Success(r) /\ http[r].body.json_data # PyNone) => extractable
                /\ ~extractable =>
                      /\ Success(r)
                      /\ http[r].body.json_data = PyNone
                      /\ http[r].body.text = response[r].text

\* C8: in JSON mode the substring handed to the JSON parser is the content
\* of the first fenced block tagged json, else of the first fenced block,
\* else the whole text (whitespace around it apart); and for every
\* generated text with a json-tagged fenced block wrapping valid JSON,
\* json_data is the parsed value of that JSON.
C8_JsonBlockParsed ==
    \A r \in Slots :
        (Done(r) /\ OnGenerate(r) /\ Returned(r) /\ HasText(r) /\ request[r].json_mode) =>
            LET text == response[r].text.v IN
            /\ locals[r].json_text # PyNone =>
                   Trimmed(locals[r].json_text.v) = Trimmed(Selected(text))
            /\ (JsonFences(text) # {} /\ IsJson(Selected(text))) =>
                   /\ Success(r)
                   /\ http[r].body.json_data = JsonValue(Selected(text))

\* What the JSON step does whenever a response object is sent: the parser
\* is handed the selected substring, and json_data is its parsed value or
\* absent.
JsonStepInSuccess ==
    \A r \in Slots :
        (Done(r) /\ OnGenerate(r) /\ Success(r)) =>
            LET text == response[r].text.v IN
            IF request[r].json_mode
            THEN /\ Trimmed(locals[r].json_text.v) = Trimmed(Selected(text))
                 /\ http[r].body.json_data =
                        IF IsJson(Selected(text)) THEN JsonValue(Selected(text)) ELSE PyNone
                 /\ http[r].body.text = response[r].text
            ELSE /\ http[r].body.json_data = PyNone
                 /\ http[r].body.text = response[r].text

BackendFailed(r) == response[r].kind = "result" /\ response[r].raised

\* the message of an error response, whichever service sent it
ErrorMessage(r) ==
    IF OnGenerate(r) THEN http[r].body.detail.v ELSE http[r].body.error.v

\* C5: when the backend generate call fails, on /generate or on
\* /generate-image, the request ends with HTTP 500 whose message contains
\* the description of the failure, the handler has returned (the slot can
\* take the next request), and the backend was called exactly once for the
\* request; no request ever calls it twice.
C5_BackendFailureIs500 ==
    \A r \in Slots :
        /\ calls[r] <= 1
        /\ BackendFailed(r) =>
              /\ Done(r)
              /\ http[r].status = 500
              /\ \E i \in 1..Len(ErrorMessage(r)) : ErrorMessage(r)[i] = response[r].desc
              /\ calls[r] = 1
              /\ ENABLED respond(r)

\* both services have answered a failed backend call, with different failures
C5_Witness ==
    \E r, q \in Slots :
        /\ BackendFailed(r) /\ OnGenerate(r) /\ response[r].desc = "quota exceeded"
        /\ BackendFailed(q) /\ OnImage(q) /\ response[q].desc = "connection reset"
        /\ http[r].status = 500 /\ http[q].status = 500

\* a step leaves the request state of every slot but one alone
SlotFrame ==
    \E r \in Slots :
        \A q \in Slots \ {r} :
            /\ pc'[q] = pc[q]
            /\ endpoint'[q] = endpoint[q]
            /\ request'[q] = request[q]
            /\ response'[q] = response[q]
            /\ calls'[q] = calls[q]
            /\ locals'[q] = locals[q]
            /\ http'[q] = http[q]

\* the body of a successful /generate-image response, from the backend
\* result alone
ImageBodyOf(resp) ==
    LET parts == resp.candidates[1]
        keys == {"success"}
                \cup (IF resp.text.t # "missing" THEN {"text"} ELSE {})
                \cup (IF InlineIndexes(parts) # {} THEN {"image"} ELSE {})
    IN  [k \in keys |->
            CASE k = "success" -> TRUE
              [] k = "text" -> resp.text
              [] k = "image" -> LastImage(parts)]

\* every response sent is determined by the request's own body, the
\* configuration and the request's own backend result (and, where the
\* framework decides, by what the framework did with that request)
ResponseFromOwnInputs ==
    \A r \in Slots :
        Done(r) =>
            /\ (OnGenerate(r) /\ Returned(r)) =>
                   \E rv \in BOOLEAN :
                       http[r] = Normalize(request[r], response[r],
                                           EnterLocals(request[r], DEFAULT_GEMINI_MODEL),
                                           rv).http
            /\ (OnImage(r) /\ Success(r)) => http[r].body = ImageBodyOf(response[r])
            /\ (OnImage(r) /\ ~Returned(r)) =>
                   \/ BackendFailed(r) /\ http[r].status = 500
                   \/ \E gj \in GetJson(request[r].body) :
                          LET d == EnterDecision(PROJECT_ID, gj)
                          IN  ~d.go /\ http[r] = [status |-> d.status, body |-> ErrorBody(d.msg)]

\* C10 as stated: the process-wide data (the configuration and the SDK
\* state set up from it) is established at process start and never changes
\* afterwards, and a handler's step writes nothing but its own request's
\* state.
C10_NoSharedWrites ==
    [][/\ config' = config
       /\ vertexai' = vertexai
       /\ SlotFrame]_vars

\* C10, amended: the configuration (project, region, default model) never
\* changes after process start and a handler's step writes no other
\* request's state; the image service's before_request hook does write
\* process-wide state, the SDK's init state, on every request when a project
\* is configured, but only ever the (project, region) of the configuration,
\* so that state changes once, on the first such request; each response is
\* determined by its own body, the configuration and its own backend result.
C10_SharedStateFromConfigOnly ==
    /\ []ResponseFromOwnInputs
    /\ [][/\ config' = config
          /\ SlotFrame
          /\ vertexai'.app = vertexai.app
          /\ vertexai'.main \in {vertexai.main, Initialized(PROJECT_ID, LOCATION)}
          /\ vertexai'.main # vertexai.main => (vertexai.main = PyNone /\ PROJECT_ID # PyNone)]_vars

\* two requests in flight at once, one on each service, after the hook has
\* initialised the SDK
C10_Witness ==
    \E r, q \in Slots :
        /\ r # q
        /\ OnImage(r) /\ pc[r] = "parts"
        /\ OnGenerate(q) /\ pc[q] = "returned"
        /\ vertexai.main = Initialized(PROJECT_ID, LOCATION)

====
